---- MODULE Spec2Model ----
(***************************************************************************)
(* Whirlpool washer/dryer sensors (custom_components/whirlpool/sensor.py): *)
(* the state classifier washer_state, the tank level lookup, the two push  *)
(* sensors of WasherDryerClass and the restoring end-time sensor           *)
(* WasherDryerTimeClass, together with the appliance's callback list they  *)
(* register with.                                                          *)
(*                                                                         *)
(* Conventions.  A Python value that may be None and is not a string is an *)
(* option: None is <<>> and a present value v is <<v>>.  String-valued     *)
(* results (labels, attribute texts compared only by equality or looked up *)
(* in a dict, enum members) are TLA+ strings and Python's None is the      *)
(* string NONE among them.  The text handed to int() is a sequence of      *)
(* Unicode code points, so that parsing is computed, inside an option.     *)
(* Timestamps are integers counting seconds.                               *)
(***************************************************************************)
EXTENDS Integers, Sequences, FiniteSets, TLC

\* ---------------------------------------------------------------- options
None == <<>>
Some(x) == <<x>>
Val(o) == o[1]
NONE == "None"

\* bool(x) of an optional bool: None and False are falsy
Truthy(o) == o # None /\ Val(o) = TRUE

Abs(x) == IF x < 0 THEN -x ELSE x

\* ------------------------------------------------------------------ int()
\* The text handed to int() is a sequence of Unicode code points.
PLUS == 43
MINUS == 45
UNDERSCORE == 95

\* the code point of the digit zero of every block of decimal digits
\* (category Nd); the block is the ten code points from its zero on
DecimalZeros ==
    {48, 1632, 1776, 1984, 2406, 2534, 2662, 2790, 2918, 3046, 3174, 3302,
     3430, 3558, 3664, 3792, 3872, 4160, 4240, 6112, 6160, 6470, 6608, 6784,
     6800, 6992, 7088, 7232, 7248, 42528, 43216, 43264, 43472, 43504, 43600,
     44016, 65296, 66720, 68912, 69734, 69872, 69942, 70096, 70384, 70736,
     70864, 71248, 71360, 71472, 71904, 72016, 72784, 73040, 73120, 92768,
     92864, 93008, 120782, 120792, 120802, 120812, 120822, 123200, 123632,
     125264, 130032}

\* every character int() reads as a decimal digit
DIGITS == UNION {z..(z + 9) : z \in DecimalZeros}

\* every character int() strips from both ends: tab, line feed, vertical
\* tab, form feed, carriage return, space, and the spaces beyond ASCII
WHITESPACE ==
    (9..13) \cup {32, 133, 160, 5760} \cup (8192..8202) \cup
    {8232, 8233, 8239, 8287, 12288}

IsDigit(c) == c \in DIGITS

\* the value of a digit: its place in its block
DigitVal(c) ==
    IF c \in 48..57 THEN c - 48
    ELSE c - (CHOOSE z \in DecimalZeros : c \in z..(z + 9))

RECURSIVE LStrip(_)
LStrip(s) == IF s # <<>> /\ Head(s) \in WHITESPACE THEN LStrip(Tail(s)) ELSE s

RECURSIVE RStrip(_)
RStrip(s) ==
    IF s # <<>> /\ s[Len(s)] \in WHITESPACE
    THEN RStrip(SubSeq(s, 1, Len(s) - 1))
    ELSE s

\* the most digits int() converts (sys.get_int_max_str_digits())
MAX_STR_DIGITS == 4300

\* how many digits the text holds, underscores not counted
DigitCount(s) == Cardinality({i \in 1..Len(s) : IsDigit(s[i])})

\* digits, with single underscores allowed between two digits, and no more
\* digits than int() converts
WellFormedDigits(s) ==
    /\ s # <<>>
    /\ DigitCount(s) <= MAX_STR_DIGITS
    /\ \A i \in 1..Len(s) : IsDigit(s[i]) \/ s[i] = UNDERSCORE
    /\ IsDigit(s[1]) /\ IsDigit(s[Len(s)])
    /\ \A i \in 1..(Len(s) - 1) : ~(s[i] = UNDERSCORE /\ s[i + 1] = UNDERSCORE)

RECURSIVE DigitsValue(_, _)
DigitsValue(s, acc) ==
    IF s = <<>> THEN acc
    ELSE IF Head(s) = UNDERSCORE THEN DigitsValue(Tail(s), acc)
    ELSE DigitsValue(Tail(s), 10 * acc + DigitVal(Head(s)))

\* the text of int(x) without the whitespace around it, split into its
\* sign and what follows
IntParts(o) ==
    LET s == RStrip(LStrip(Val(o)))
        signed == s # <<>> /\ Head(s) \in {PLUS, MINUS}
    IN  [negative |-> signed /\ Head(s) = MINUS,
         body |-> IF signed THEN Tail(s) ELSE s]

\* int(x) returns: x is a text (not None) that is a base-10 integer literal
IntAccepts(o) == o # None /\ WellFormedDigits(IntParts(o).body)

\* int(x) for x the optional text of an attribute: [ok |-> FALSE] stands for
\* the TypeError of int(None) and the ValueError of a text that is no
\* base-10 integer literal or holds too many digits.
IntOf(o) ==
    IF ~IntAccepts(o) THEN [ok |-> FALSE, val |-> 0]
    ELSE LET parts == IntParts(o)
         IN  [ok |-> TRUE,
              val |-> IF parts.negative
                      THEN -DigitsValue(parts.body, 0)
                      ELSE DigitsValue(parts.body, 0)]

\* ------------------------------------------------- now + timedelta(seconds)
\* The clock reading 0 stands for 2026-01-01T00:00:00Z.  A datetime runs
\* from 0001-01-01T00:00:00 to 9999-12-31T23:59:59.999999: DAYS_FROM_MIN
\* days lie between the first day and the day of reading 0 and DAYS_TO_MAX
\* days between that day and the last.
SECONDS_PER_DAY == 86400
DAYS_FROM_MIN == 739616
DAYS_TO_MAX == 2912442

\* more days than any two datetimes are apart
DAYS_BEYOND == DAYS_FROM_MIN + DAYS_TO_MAX + 1

\* divmod(n, 86400) of the number n the digits spell, as timedelta splits
\* its seconds into days and seconds; the days stop counting at DAYS_BEYOND
RECURSIVE DaysAndSeconds(_, _)
DaysAndSeconds(s, acc) ==
    IF s = <<>> THEN acc
    ELSE IF Head(s) = UNDERSCORE THEN DaysAndSeconds(Tail(s), acc)
    ELSE LET t == 10 * acc.seconds + DigitVal(Head(s))
             d == 10 * acc.days + (t \div SECONDS_PER_DAY)
         IN  DaysAndSeconds(Tail(s),
                 [days |-> IF d > DAYS_BEYOND THEN DAYS_BEYOND ELSE d,
                  seconds |-> t % SECONDS_PER_DAY])

\* utcnow + timedelta(seconds=int(x)) is a datetime; otherwise the
\* timedelta or the sum raises OverflowError.  x is a text int() accepts.
Representable(utcnow, o) ==
    LET parts == IntParts(o)
        delta == DaysAndSeconds(parts.body, [days |-> 0, seconds |-> 0])
    IN  IF parts.negative
        THEN delta.days - ((utcnow - delta.seconds) \div SECONDS_PER_DAY)
                 <= DAYS_FROM_MIN
        ELSE delta.days + ((utcnow + delta.seconds) \div SECONDS_PER_DAY)
                 <= DAYS_TO_MAX

\* ------------------------------------------------------------ tables
\* dict.get(key): the value, or None for a key the dict does not hold
DictGet(d, k) == IF k \in DOMAIN d THEN d[k] ELSE NONE

TANK_FILL ==
    "0" :> "unknown" @@ "1" :> "empty" @@ "2" :> "25" @@
    "3" :> "50" @@ "4" :> "100" @@ "5" :> "active"

MACHINE_STATE ==
    "Standby" :> "standby" @@
    "Setting" :> "setting" @@
    "DelayCountdownMode" :> "delay_countdown" @@
    "DelayPause" :> "delay_paused" @@
    "SmartDelay" :> "smart_delay" @@
    "SmartGridPause" :> "smart_grid_pause" @@
    "Pause" :> "pause" @@
    "RunningMainCycle" :> "running_maincycle" @@
    "RunningPostCycle" :> "running_postcycle" @@
    "Exceptions" :> "exception" @@
    "Complete" :> "complete" @@
    "PowerFailure" :> "power_failure" @@
    "ServiceDiagnostic" :> "service_diagnostic_mode" @@
    "FactoryDiagnostic" :> "factory_diagnostic_mode" @@
    "LifeTest" :> "life_test" @@
    "CustomerFocusMode" :> "customer_focus_mode" @@
    "DemoMode" :> "demo_mode" @@
    "HardStopOrError" :> "hard_stop_or_error" @@
    "SystemInit" :> "system_initialize"

\* the members of the MachineState enum the module names
MachineState == DOMAIN MACHINE_STATE

\* what get_machine_state() returns: a member, or None for a raw state the
\* enum does not know
MachineStateValues == MachineState \cup {NONE}

\* as CYCLE_FUNC, with washing moved to the front
CYCLE_FUNC_washing_first ==
    << <<"washing", "cycle_washing">>,
       <<"filling", "cycle_filling">>,
       <<"rinsing", "cycle_rinsing">>,
       <<"sensing", "cycle_sensing">>,
       <<"soaking", "cycle_soaking">>,
       <<"spinning", "cycle_spinning">> >>

\* the getters of CYCLE_FUNC with their labels, in the declared order
CYCLE_FUNC ==
    << <<"filling", "cycle_filling">>,
       <<"rinsing", "cycle_rinsing">>,
       <<"sensing", "cycle_sensing">>,
       <<"soaking", "cycle_soaking">>,
       <<"spinning", "cycle_spinning">>,
       <<"washing", "cycle_washing">> >>

CyclePhases == {CYCLE_FUNC[i][1] : i \in 1..Len(CYCLE_FUNC)}

\* ------------------------------------------------------- the classifier
\* the for loop over CYCLE_FUNC from position i: the label of the first
\* getter that is true, None when the loop ends without returning
RECURSIVE FirstCycle(_, _)
FirstCycle(washer, i) ==
    IF i > Len(CYCLE_FUNC) THEN NONE
    ELSE IF washer.cycle[CYCLE_FUNC[i][1]] THEN CYCLE_FUNC[i][2]
    ELSE FirstCycle(washer, i + 1)

\* as washer_state, with the door tested after the cycle phases
washer_state_door_last(washer) ==
    LET machine_state == washer.ms
        cycle_name == IF machine_state = "RunningMainCycle"
                      THEN FirstCycle(washer, 1)
                      ELSE NONE
    IN  IF cycle_name # NONE THEN cycle_name
        ELSE IF washer.door = "1" THEN "door_open"
        ELSE DictGet(MACHINE_STATE, machine_state)

\* as washer_state, with the cycle phases tested in every machine state
washer_state_any_state(washer) ==
    IF washer.door = "1" THEN "door_open"
    ELSE LET machine_state == washer.ms
             cycle_name == FirstCycle(washer, 1)
         IN  IF cycle_name # NONE THEN cycle_name
             ELSE DictGet(MACHINE_STATE, machine_state)

\* as washer_state, with no fall through to the table from a running main
\* cycle
washer_state_no_fall_through(washer) ==
    IF washer.door = "1" THEN "door_open"
    ELSE LET machine_state == washer.ms
         IN  IF machine_state = "RunningMainCycle"
             THEN FirstCycle(washer, 1)
             ELSE DictGet(MACHINE_STATE, machine_state)

\* washer_state: door first, then the cycle phase of a running main cycle,
\* then the table
washer_state(washer) ==
    IF washer.door = "1" THEN "door_open"
    ELSE LET machine_state == washer.ms
             cycle_name == IF machine_state = "RunningMainCycle"
                           THEN FirstCycle(washer, 1)
                           ELSE NONE
         IN  IF cycle_name # NONE THEN cycle_name
             ELSE DictGet(MACHINE_STATE, machine_state)

\* as tank_level, with a code the table does not hold mapped to the label
\* "unknown" of code "0"
tank_level_default_label(wd) ==
    IF wd.tank \in DOMAIN TANK_FILL THEN TANK_FILL[wd.tank] ELSE "unknown"

\* value_fn of the DispenseLevel description: TANK_FILL.get of the raw code
tank_level(wd) == DictGet(TANK_FILL, wd.tank)


\* value_fn of the two SENSORS descriptions, by description key
value_fn(key, wd) ==
    IF key = "state" THEN washer_state(wd) ELSE tank_level(wd)

\* ------------------------------------------------------------ the sensors
StateSensor == "state"
TankSensor == "DispenseLevel"
TimeSensor == "timeremaining"

\* the entities async_setup_entry creates for one washer/dryer
PushSensors == {StateSensor, TankSensor}
Sensors == PushSensors \cup {TimeSensor}

\* the bound method a sensor hands to register_attr_callback
registered_callback(s) ==
    IF s = TimeSensor THEN <<s, "update_from_latest_data">>
    ELSE <<s, "async_write_ha_state">>

\* as unregistered_callback, with the end-time sensor unregistering
\* async_write_ha_state, which it never registered
unregistered_callback_wrong(s) == <<s, "async_write_ha_state">>

\* the bound method a sensor hands to unregister_attr_callback
unregistered_callback(s) ==
    IF s = TimeSensor THEN <<s, "update_from_latest_data">>
    ELSE <<s, "async_write_ha_state">>

\* the difference beyond which a new end time replaces the stored one
HYSTERESIS_SECONDS == 60

\* ------------------------------------------------------------ bounds
\* the clock readings run from 0 to MaxNow
MaxNow == 2

\* how far the clock moves between two notifications
ClockSteps == {0, 1}

\* the text "60" of Cavity_TimeStatusEstTimeRemaining
Sixty == <<54, 48>>

\* texts of Cavity_TimeStatusEstTimeRemaining (None: attribute absent): the
\* empty text, "ab", "0", "60", 61 written as a carriage return, the
\* Arabic-Indic digit six, "1" and a no-break space, "-5", and
\* "999999999999", more seconds than lie before the last datetime
RemainingTexts ==
    { None,
      Some(<<>>),
      Some(<<97, 98>>),
      Some(<<48>>),
      Some(Sixty),
      Some(<<13, 1638, 49, 160>>),
      Some(<<MINUS, 53>>),
      Some(<<57, 57, 57, 57, 57, 57, 57, 57, 57, 57, 57, 57>>) }

DoorTexts == {"0", "1", NONE}
TankTexts == {"0", "1", "2", "3", "4", "5", "9", NONE}
CycleFlags == [CyclePhases -> BOOLEAN]

NoCycle == [p \in CyclePhases |-> FALSE]

\* what async_get_last_sensor_data() yields: None, or stored data whose
\* native_value is None or a timestamp
RestoredData == {None, Some(None), Some(Some(0))}

\* every snapshot of the attributes the sensors read
Snapshots ==
    [ms : MachineStateValues, door : DoorTexts, cycle : CycleFlags,
     rem : RemainingTexts, tank : TankTexts]

\* the machine states the end-time sensor is run on: the three it tells
\* apart, None, and three of those it treats alike
TimeMachineStates ==
    {"Standby", "Complete", "RunningMainCycle", "RunningPostCycle", "Pause",
     "Setting", NONE}

\* the snapshots that differ in what the end-time sensor reads: outside the
\* main cycle, where the remaining time is not read, it is absent
TimeSnapshots ==
    { wd \in [ms : TimeMachineStates, door : {"0"}, cycle : {NoCycle},
              rem : RemainingTexts, tank : {"0"}] :
        wd.ms # "RunningMainCycle" => wd.rem = None }

\* the snapshots that differ in what the classifiers read
ClassifierSnapshots ==
    [ms : MachineStateValues, door : DoorTexts, cycle : CycleFlags,
     rem : {None}, tank : TankTexts]

\* the snapshots the three entities of one appliance are run together on
FacadeSnapshots ==
    { wd \in [ms : {"Standby", "RunningMainCycle"}, door : {"0"},
              cycle : {NoCycle}, rem : {None, Some(Sixty)},
              tank : {"1", "3"}] :
        wd.ms # "RunningMainCycle" => wd.rem = None }

InitialAttrs ==
    [ms |-> "Standby", door |-> "0", cycle |-> NoCycle, rem |-> None,
     tank |-> "0"]

\* ------------------------------------------------------------ state
VARIABLES
    attrs,      \* the appliance's latest attributes (WasherDryer)
    online,     \* what the appliance's get_online() returns
    now,        \* the reading utcnow() gives
    callbacks,  \* the appliance's list of registered callbacks
    restored,   \* what the restore store holds for the end-time sensor
    phase,      \* each entity's place in its lifecycle
    running,    \* WasherDryerTimeClass._running
    native,     \* WasherDryerTimeClass._attr_native_value
    hostState,  \* per entity, the last state written to the host, if any
    invoked,    \* the entities whose callback the last step called
    writes,     \* per entity, the states the last step wrote to the host
    raised,     \* whether the last step let an exception out
    polled,     \* whether the last step ended a poll of the end-time sensor
    polling,    \* whether async_update waits at its await of fetch_data()
    emitted,    \* the entities whose own code has ever written to the host
    notified,   \* the entities whose callback has ever been called
    before,     \* running, native and hostState as the last step found them
    shown       \* per push sensor, the last native_value read, if any

vars ==
    <<attrs, online, now, callbacks, restored, phase, running, native,
      hostState, invoked, writes, raised, polled, polling, emitted, notified,
      before, shown>>

NoWrites == [s \in Sensors |-> <<>>]


\* ------------------------------------------------------------ handlers
\* The handlers act on the record w of what a dispatch can change:
\* running, native, hostState, invoked, writes, raised.

\* native_value of an entity: computed from the attributes by the push
\* sensors, the stored _attr_native_value for the end-time sensor
native_value(s, w, wd) ==
    IF s = TimeSensor THEN w.native ELSE value_fn(s, wd)

\* as available, but unavailable while the entity holds no value
available_needs_value(s, w, is_online) ==
    is_online /\ (s = TimeSensor => w.native # None)

\* the available property of both classes: get_online()
available(s, w, is_online) == is_online

\* async_write_ha_state: hand the entity's native_value to the host
async_write_ha_state(s, w, wd) ==
    LET v == native_value(s, w, wd)
    IN  [w EXCEPT !.hostState[s] = Some(v),
                  !.writes[s] = Append(@, v)]

\* an exception leaving the callback
Raise(w) == [w EXCEPT !.raised = TRUE]

\* as finish_transition, with the assignment _running = False left out
finish_transition_stays_running(w, wd, utcnow) ==
    IF wd.ms \in {"Complete", "Standby"} /\ Truthy(w.running)
    THEN async_write_ha_state(TimeSensor,
             [w EXCEPT !.native = Some(utcnow)], wd)
    ELSE w

\* as finish_transition, with the test of _running left out
finish_transition_any_flag(w, wd, utcnow) ==
    IF wd.ms \in {"Complete", "Standby"}
    THEN async_write_ha_state(TimeSensor,
             [w EXCEPT !.running = Some(FALSE), !.native = Some(utcnow)], wd)
    ELSE w

\* as finish_transition, with RunningMainCycle among the finishing states
finish_transition_also_running(w, wd, utcnow) ==
    IF wd.ms \in {"Complete", "Standby", "RunningMainCycle"}
       /\ Truthy(w.running)
    THEN async_write_ha_state(TimeSensor,
             [w EXCEPT !.running = Some(FALSE), !.native = Some(utcnow)], wd)
    ELSE w

\* update_from_latest_data, first if: the cycle has just finished
finish_transition(w, wd, utcnow) ==
    IF wd.ms \in {"Complete", "Standby"} /\ Truthy(w.running)
    THEN async_write_ha_state(TimeSensor,
             [w EXCEPT !.running = Some(FALSE), !.native = Some(utcnow)], wd)
    ELSE w

\* as differs_enough, with >= for >
differs_enough_inclusive(value, new_timestamp) ==
    \/ value = None
    \/ Abs(new_timestamp - Val(value)) >= HYSTERESIS_SECONDS

\* as differs_enough, with the test for None left out
differs_enough_needs_value(value, new_timestamp) ==
    /\ value # None
    /\ Abs(new_timestamp - Val(value)) > HYSTERESIS_SECONDS

\* as differs_enough, with abs() left out
differs_enough_signed(value, new_timestamp) ==
    \/ value = None
    \/ new_timestamp - Val(value) > HYSTERESIS_SECONDS

\* the test deciding whether new_timestamp replaces the stored value
differs_enough(value, new_timestamp) ==
    \/ value = None
    \/ Abs(new_timestamp - Val(value)) > HYSTERESIS_SECONDS

\* as running_update, with _running = True assigned after int()
running_update_parse_first(w, wd, utcnow) ==
    IF wd.ms = "RunningMainCycle"
    THEN LET w1 == [w EXCEPT !.running = Some(TRUE)]
             new_timestamp == utcnow + IntOf(wd.rem).val
         IN  IF ~IntAccepts(wd.rem) THEN Raise(w)
             ELSE IF ~Representable(utcnow, wd.rem) THEN Raise(w1)
             ELSE IF differs_enough(w1.native, new_timestamp)
             THEN async_write_ha_state(TimeSensor,
                      [w1 EXCEPT !.native = Some(new_timestamp)], wd)
             ELSE w1
    ELSE w

\* update_from_latest_data, second if: the main cycle is running.  int()
\* raises for a text it does not accept (line 242) and the sum raises
\* OverflowError when it is no datetime (line 243), both after _running
\* was set.
running_update(w, wd, utcnow) ==
    IF wd.ms = "RunningMainCycle"
    THEN LET w1 == [w EXCEPT !.running = Some(TRUE)]
             new_timestamp == utcnow + IntOf(wd.rem).val
         IN  IF ~IntAccepts(wd.rem) THEN Raise(w1)
             ELSE IF ~Representable(utcnow, wd.rem) THEN Raise(w1)
             ELSE IF differs_enough(w1.native, new_timestamp)
             THEN async_write_ha_state(TimeSensor,
                      [w1 EXCEPT !.native = Some(new_timestamp)], wd)
             ELSE w1
    ELSE w

\* as update_from_latest_data, with _running following the machine state:
\* cleared by every state other than RunningMainCycle
update_from_latest_data_tracks_state(w, wd, utcnow) ==
    IF wd.ms = NONE THEN Raise(w)
    ELSE LET w1 == running_update(finish_transition(w, wd, utcnow), wd, utcnow)
         IN  IF wd.ms = "RunningMainCycle" THEN w1
             ELSE [w1 EXCEPT !.running = Some(FALSE)]

\* update_from_latest_data: machine_state.value raises for a machine state
\* of None; otherwise the two ifs run one after the other
update_from_latest_data(w, wd, utcnow) ==
    IF wd.ms = NONE THEN Raise(w)
    ELSE running_update(finish_transition(w, wd, utcnow), wd, utcnow)

\* one call of a registered callback
Call(cb, w, wd, utcnow) ==
    LET s == cb[1]
        w1 == [w EXCEPT !.invoked = @ \cup {s}]
    IN  IF cb[2] = "update_from_latest_data"
        THEN update_from_latest_data(w1, wd, utcnow)
        ELSE async_write_ha_state(s, w1, wd)

\* The appliance calls its callbacks in registration order.  Whether it goes
\* on to the later callbacks after one raised is the library's choice, so
\* both are allowed (stop).
RECURSIVE Dispatch(_, _, _, _, _)
Dispatch(cbs, w, wd, utcnow, stop) ==
    IF cbs = <<>> \/ (w.raised /\ stop) THEN w
    ELSE Dispatch(Tail(cbs), Call(Head(cbs), w, wd, utcnow), wd, utcnow, stop)

\* x is an item of the list l
ListHas(l, x) == \E i \in 1..Len(l) : l[i] = x

\* the list l without its first x
RECURSIVE WithoutFirst(_, _)
WithoutFirst(l, x) ==
    IF l = <<>> THEN <<>>
    ELSE IF Head(l) = x THEN Tail(l)
    ELSE <<Head(l)>> \o WithoutFirst(Tail(l), x)

\* list.remove(x): the list without its first x; a ValueError and the list
\* as it was when x is not in it
ListRemove(l, x) ==
    IF ListHas(l, x) THEN [raised |-> FALSE, list |-> WithoutFirst(l, x)]
    ELSE [raised |-> TRUE, list |-> l]

\* ------------------------------------------------------------ actions
\* the walrus if of async_added_to_hass: stored data, when there is any,
\* gives the native value
restored_native_value_dropped(restored_data, value) == value

restored_native_value(restored_data, value) ==
    IF restored_data # None THEN Val(restored_data) ELSE value

Found ==
    [running |-> running, native |-> native, hostState |-> hostState,
     online |-> online]

Quiet ==
    /\ invoked' = {}
    /\ before' = Found
    /\ writes' = NoWrites
    /\ raised' = FALSE
    /\ polled' = FALSE

\* WasherDryerClass.async_added_to_hass
AddPushSensor(s) ==
    /\ s \in PushSensors
    /\ phase[s] = "new"
    /\ phase' = [phase EXCEPT ![s] = "added"]
    /\ callbacks' = Append(callbacks, registered_callback(s))
    /\ Quiet
    /\ UNCHANGED <<attrs, online, now, restored, running, native, hostState,
                   notified, emitted,
                   polling, shown>>

\* as RestoreTimeSensor, with the callback registered before the awaits
RestoreTimeSensorRegistered ==
    /\ phase[TimeSensor] = "new"
    /\ phase' = [phase EXCEPT ![TimeSensor] = "restoring"]
    /\ native' = restored_native_value(restored, native)
    /\ callbacks' = Append(callbacks, registered_callback(TimeSensor))
    /\ Quiet
    /\ UNCHANGED <<attrs, online, now, restored, running, hostState,
                   notified, emitted,
                   polling, shown>>

\* WasherDryerTimeClass.async_added_to_hass up to its second await: the
\* restored value, if there is stored data, becomes the native value
RestoreTimeSensor ==
    /\ phase[TimeSensor] = "new"
    /\ phase' = [phase EXCEPT ![TimeSensor] = "restoring"]
    /\ native' = restored_native_value(restored, native)
    /\ Quiet
    /\ UNCHANGED <<attrs, online, now, callbacks, restored, running,
                   hostState, notified, emitted,
                   polling, shown>>

\* WasherDryerTimeClass.async_added_to_hass, its last statement
RegisterTimeSensor ==
    /\ phase[TimeSensor] = "restoring"
    /\ phase' = [phase EXCEPT ![TimeSensor] = "added"]
    /\ callbacks' = Append(callbacks, registered_callback(TimeSensor))
    /\ Quiet
    /\ UNCHANGED <<attrs, online, now, restored, running, native, hostState,
                   notified, emitted,
                   polling, shown>>

\* async_will_remove_from_hass of either class; calling it again finds
\* nothing to remove.  Whether the appliance lets the ValueError of a
\* missing callback out of unregister_attr_callback is the library's
\* choice, so both are allowed.
Remove(s) ==
    /\ phase[s] \in {"added", "removed"}
    /\ phase' = [phase EXCEPT ![s] = "removed"]
    /\ LET removal == ListRemove(callbacks, unregistered_callback(s))
       IN  /\ callbacks' = removal.list
           /\ raised' \in (IF removal.raised THEN BOOLEAN ELSE {FALSE})
    /\ invoked' = {}
    /\ before' = Found
    /\ writes' = NoWrites
    /\ polled' = FALSE
    /\ UNCHANGED <<attrs, online, now, restored, running, native, hostState,
                   notified, emitted,
                   polling, shown>>

\* the entities that wrote to the host in the dispatch that gave w
Writers(w) == {s \in Sensors : w.writes[s] # <<>>}

\* The appliance takes new attributes and calls every registered callback.
Notify(snapshots, steps, stops) ==
    \E wd \in snapshots, dt \in steps, stop \in stops :
        /\ now + dt <= MaxNow
        /\ attrs' = wd
        /\ now' = now + dt
        /\ LET w0 == [running |-> running, native |-> native,
                      hostState |-> hostState, invoked |-> {},
                      writes |-> NoWrites, raised |-> FALSE]
               w == Dispatch(callbacks, w0, wd, now', stop)
           IN  /\ running' = w.running
               /\ native' = w.native
               /\ hostState' = w.hostState
               /\ invoked' = w.invoked
               /\ writes' = w.writes
               /\ raised' = w.raised
               /\ notified' = notified \cup w.invoked
               /\ emitted' = emitted \cup Writers(w)
               /\ before' = Found
        /\ polled' = FALSE
        /\ UNCHANGED <<online, callbacks, restored, phase, polling, shown>>

\* The host polls the end-time sensor (_attr_should_poll), whenever it
\* chooses: async_update runs up to its await of fetch_data().
async_update ==
    /\ ~polling
    /\ polling' = TRUE
    /\ Quiet
    /\ UNCHANGED <<attrs, online, now, callbacks, restored, phase, running,
                   native, hostState, notified, emitted, shown>>

\* fetch_data() returns to the waiting async_update: it has refreshed the
\* appliance's attributes, and then the host writes the entity's state as
\* it is by now.  Whether fetch_data() calls the registered callbacks is the
\* library's choice, so both are allowed (calls).  The host's write is no
\* write of a callback: it changes hostState and not writes.
async_update_done(snapshots, steps, stops) ==
    \E wd \in snapshots, dt \in steps, stop \in stops, calls \in BOOLEAN :
        /\ polling
        /\ polling' = FALSE
        /\ now + dt <= MaxNow
        /\ attrs' = wd
        /\ now' = now + dt
        /\ LET w0 == [running |-> running, native |-> native,
                      hostState |-> hostState, invoked |-> {},
                      writes |-> NoWrites, raised |-> FALSE]
               w == IF calls THEN Dispatch(callbacks, w0, wd, now', stop)
                    ELSE w0
           IN  /\ running' = w.running
               /\ native' = w.native
               /\ hostState' =
                      [w.hostState EXCEPT ![TimeSensor] = Some(w.native)]
               /\ invoked' = w.invoked
               /\ writes' = w.writes
               /\ raised' = w.raised
               /\ notified' = notified \cup w.invoked
               /\ emitted' = emitted \cup Writers(w)
               /\ before' = Found
        /\ polled' = TRUE
        /\ UNCHANGED <<online, callbacks, restored, phase, shown>>

\* The appliance goes offline or comes back: get_online() changes and no
\* callback is called.
SetOnline ==
    /\ online' = ~online
    /\ Quiet
    /\ UNCHANGED <<attrs, now, callbacks, restored, phase, running, native,
                   hostState, notified, emitted,
                   polling, shown>>

\* WasherDryerClass.native_value read by the host
ReadNativeValue(s) ==
    /\ s \in PushSensors
    /\ shown' = [shown EXCEPT ![s] = Some(value_fn(s, attrs))]
    /\ UNCHANGED <<attrs, online, now, callbacks, restored, phase, running,
                   native, hostState, invoked, writes, raised, polled,
                   notified, emitted, polling, before>>

\* ------------------------------------------------------- specifications
InitWith(snapshots, stored) ==
    /\ attrs \in snapshots
    /\ online = TRUE
    /\ now = 0
    /\ callbacks = <<>>
    /\ restored \in stored
    /\ phase = [s \in Sensors |-> "new"]
    /\ running = None
    /\ native = None
    /\ hostState = [s \in Sensors |-> None]
    /\ invoked = {}
    /\ writes = NoWrites
    /\ raised = FALSE
    /\ polled = FALSE
    /\ polling = FALSE
    /\ emitted = {}
    /\ notified = {}
    /\ before = [running |-> None, native |-> None,
                 hostState |-> [s \in Sensors |-> None], online |-> TRUE]
    /\ shown = [s \in PushSensors |-> None]

\* the end-time sensor of one appliance
Init == InitWith({InitialAttrs}, RestoredData)

Next ==
    \/ RestoreTimeSensor
    \/ RegisterTimeSensor
    \/ Remove(TimeSensor)
    \/ SetOnline
    \/ Notify(TimeSnapshots, ClockSteps, {TRUE})
    \/ async_update
    \/ async_update_done(TimeSnapshots, {0}, {TRUE})

Spec == Init /\ [][Next]_vars

\* the classifiers, read on every snapshot
InitClassify == InitWith(ClassifierSnapshots, {None})

NextClassify == \E s \in PushSensors : ReadNativeValue(s)

SpecClassify == InitClassify /\ [][NextClassify]_vars


\* the three entities of one appliance, added, notified and removed in
\* every order
InitFacade == InitWith({InitialAttrs}, {None})

NextFacade ==
    \/ \E s \in PushSensors : AddPushSensor(s)
    \/ RestoreTimeSensor
    \/ RegisterTimeSensor
    \/ \E s \in Sensors : Remove(s)
    \/ Notify(FacadeSnapshots, {0}, BOOLEAN)
    \/ async_update
    \/ async_update_done(FacadeSnapshots, {0}, BOOLEAN)

SpecFacade == InitFacade /\ [][NextFacade]_vars


\* ------------------------------------------------------------ properties
\* the last step called update_from_latest_data
TimeCalled == TimeSensor \in invoked

\* the last step called it with the main cycle running and a remaining
\* time R that int() accepts and for which now + R is a datetime, the
\* candidate
RunningParsed ==
    /\ TimeCalled
    /\ attrs.ms = "RunningMainCycle"
    /\ IntAccepts(attrs.rem)
    /\ Representable(now, attrs.rem)

\* the candidate end time of the last notification
Candidate == now + IntOf(attrs.rem).val

\* the states the end-time sensor wrote to the host in the last step
TimeWrites == writes[TimeSensor]

\* the last step left the host's state of entity s as it was, or the host
\* itself wrote the end-time sensor's value at the end of a poll
HostKept(s) ==
    \/ hostState[s] = before.hostState[s]
    \/ polled /\ s = TimeSensor /\ hostState[s] = Some(native)

\* C1: hysteresis law.  A running-main-cycle notification with a parsed
\* remaining time R, handled while a timestamp T0 is stored, leaves T0 in
\* place and writes nothing when |now + R - T0| <= 60, and writes and stores
\* now + R when |now + R - T0| > 60.
HysteresisLaw ==
    (RunningParsed /\ before.native # None) =>
        LET T0 == Val(before.native)
            T1 == Candidate
        IN  /\ Abs(T1 - T0) <= 60 => (TimeWrites = <<>> /\ native = Some(T0))
            /\ Abs(T1 - T0) > 60 =>
                   (TimeWrites = <<Some(T1)>> /\ native = Some(T1))

\* a candidate exactly 60 seconds from the stored timestamp was suppressed
HysteresisWitness ==
    /\ RunningParsed
    /\ before.native # None
    /\ Abs(Candidate - Val(before.native)) = 60
    /\ TimeWrites = <<>>

\* C2: finish-transition law.  A complete or standby notification handled
\* while running is true writes exactly now, stores it and clears running;
\* one handled while running is already False writes and changes nothing.
FinishTransitionLaw ==
    (TimeCalled /\ attrs.ms \in {"Complete", "Standby"}) =>
        /\ before.running = Some(TRUE) =>
               /\ TimeWrites = <<Some(now)>>
               /\ native = Some(now)
               /\ running = Some(FALSE)
        /\ before.running = Some(FALSE) =>
               /\ TimeWrites = <<>>
               /\ native = before.native
               /\ running = Some(FALSE)
               /\ hostState = before.hostState

\* a second terminal notification arrived after the finish and was ignored
FinishTransitionWitness ==
    /\ TimeCalled
    /\ attrs.ms \in {"Complete", "Standby"}
    /\ before.running = Some(FALSE)
    /\ native # None
    /\ hostState[TimeSensor] = Some(native)
    /\ TimeWrites = <<>>

\* C3: a running-main-cycle notification whose remaining time is absent or
\* no integer is handled without an exception and without a write.
BadRemainingNeverRaises ==
    (TimeCalled /\ attrs.ms = "RunningMainCycle" /\ ~IntAccepts(attrs.rem)) =>
        (~raised /\ TimeWrites = <<>>)

\* C4: with no timestamp stored, a running-main-cycle notification with a
\* parsed remaining time R writes and stores exactly now + R.
FirstEstimateEmitted ==
    (RunningParsed /\ before.native = None) =>
        (TimeWrites = <<Some(Candidate)>> /\ native = Some(Candidate))

\* the first estimate, from a remaining time of 60 seconds
FirstEstimateWitness ==
    /\ RunningParsed
    /\ before.native = None
    /\ attrs.rem = Some(Sixty)
    /\ native = Some(now + 60)


\* the state sensor's native_value has been read on the current snapshot
StateShown == shown[StateSensor] # None

\* the label it gave
StateLabel == Val(shown[StateSensor])

\* the cycle phases in their fixed priority order, and their labels
PhaseOrder ==
    <<"filling", "rinsing", "sensing", "soaking", "spinning", "washing">>

PhaseLabel ==
    <<"cycle_filling", "cycle_rinsing", "cycle_sensing", "cycle_soaking",
      "cycle_spinning", "cycle_washing">>

\* C5: door-open override.  With the door attribute "1" the classifier
\* gives door_open, whatever the machine state (mapped or not) and the six
\* cycle flags are.
DoorOpenOverride ==
    (StateShown /\ attrs.door = "1") => StateLabel = "door_open"

\* door open during a running main cycle with the washing flag set
DoorOpenWitness ==
    /\ StateShown
    /\ attrs.door = "1"
    /\ attrs.ms = "RunningMainCycle"
    /\ attrs.cycle["washing"]
    /\ StateLabel = "door_open"

\* C6: cycle-phase priority.  Door not open, running main cycle and some
\* flag true: the label is that of the first true flag in the order
\* filling, rinsing, sensing, soaking, spinning, washing.
CyclePhasePriority ==
    (/\ StateShown
     /\ attrs.door # "1"
     /\ attrs.ms = "RunningMainCycle"
     /\ \E i \in 1..6 : attrs.cycle[PhaseOrder[i]]) =>
        \E i \in 1..6 :
            /\ attrs.cycle[PhaseOrder[i]]
            /\ \A j \in 1..(i - 1) : ~attrs.cycle[PhaseOrder[j]]
            /\ StateLabel = PhaseLabel[i]

\* rinsing and washing both set: rinsing wins
CyclePhaseWitness ==
    /\ StateShown
    /\ attrs.door = "0"
    /\ attrs.ms = "RunningMainCycle"
    /\ attrs.cycle = [NoCycle EXCEPT !["rinsing"] = TRUE, !["washing"] = TRUE]
    /\ StateLabel = "cycle_rinsing"

\* C7: door not open.  A machine state that is no key of the table gives
\* None; a key other than running-main-cycle gives the table's label,
\* whatever the cycle flags are.
TableFallback ==
    (StateShown /\ attrs.door # "1") =>
        /\ attrs.ms \notin DOMAIN MACHINE_STATE => StateLabel = NONE
        /\ (attrs.ms \in DOMAIN MACHINE_STATE /\ attrs.ms # "RunningMainCycle")
               => StateLabel = MACHINE_STATE[attrs.ms]

\* an unmapped machine state with every cycle flag set gave None
TableFallbackWitness ==
    /\ StateShown
    /\ attrs.door = "0"
    /\ attrs.ms = NONE
    /\ \A ph \in CyclePhases : attrs.cycle[ph]
    /\ StateLabel = NONE


\* the stored data hold a timestamp
HasPersisted == restored # None /\ Val(restored) # None

\* the finish rule acted in the last step
FinishApplied ==
    /\ TimeCalled
    /\ attrs.ms \in {"Complete", "Standby"}
    /\ before.running = Some(TRUE)
    /\ native = Some(now)

\* the hysteresis rule replaced a stored timestamp in the last step
HysteresisApplied ==
    /\ RunningParsed
    /\ before.native # None
    /\ Abs(Candidate - Val(before.native)) > 60
    /\ native = Some(Candidate)

\* C8: restoration.  Once the end-time sensor has restored a persisted
\* timestamp P and until its first notification, its value is P, running is
\* not true and the sensor has written nothing to the host, whose state of
\* it changes only by the host's own write after a poll; afterwards the
\* value changes only by the finish rule or the hysteresis rule.
RestorationHolds ==
    (phase[TimeSensor] # "new" /\ HasPersisted) =>
        /\ TimeSensor \notin notified =>
               /\ native = Val(restored)
               /\ running # Some(TRUE)
               /\ TimeSensor \notin emitted
               /\ HostKept(TimeSensor)
               /\ TimeWrites = <<>>
        /\ native # before.native =>
               IF TimeCalled
               THEN FinishApplied \/ HysteresisApplied
               ELSE phase[TimeSensor] = "restoring" /\ native = Val(restored)

\* the sensor is registered with its restored timestamp and has not been
\* notified yet
RestorationWitness ==
    /\ phase[TimeSensor] = "added"
    /\ restored = Some(Some(0))
    /\ TimeSensor \notin notified
    /\ native = Some(0)
    /\ running = None

\* C9: a push sensor writes to the host only a value that differs from the
\* last one written; a notification that leaves the derived value as it was
\* writes nothing.
PushOnlyOnChange ==
    \A s \in PushSensors :
        writes[s] # <<>> => before.hostState[s] # Some(writes[s][1])

\* the entities whose callback is in the appliance's list
Registered == {callbacks[i][1] : i \in 1..Len(callbacks)}

\* C10: subscription lifecycle.  The appliance's list holds, once each, the
\* callbacks of exactly the added entities, also after a repeated removal;
\* a removed entity's callback is never called again and its state stays
\* as it was.
TeardownSilences ==
    /\ \A s \in Sensors :
           /\ (\E i \in 1..Len(callbacks) : callbacks[i] = registered_callback(s))
                  <=> phase[s] = "added"
           /\ phase[s] = "removed" =>
                  /\ s \notin invoked
                  /\ writes[s] = <<>>
                  /\ HostKept(s)
    /\ Registered = {s \in Sensors : phase[s] = "added"}
    /\ Len(callbacks) = Cardinality(Registered)
    /\ phase[TimeSensor] = "removed" =>
           (native = before.native /\ running = before.running)

\* after the end-time sensor was removed, a running-main-cycle notification
\* reached the state sensor and left the end-time sensor untouched
TeardownWitness ==
    /\ phase[TimeSensor] = "removed"
    /\ StateSensor \in invoked
    /\ attrs.ms = "RunningMainCycle"
    /\ attrs.rem = Some(Sixty)
    /\ running = None


\* C11: availability.  Every entity is available exactly when the appliance
\* is online, and a step that changes only the online flag leaves running,
\* the stored timestamp and the states held by the host as they were.
AvailabilityFollowsOnline ==
    /\ \A s \in Sensors : available(s, Found, online) = online
    /\ online # before.online =>
           /\ native = before.native
           /\ running = before.running
           /\ hostState = before.hostState
           /\ TimeWrites = <<>>

\* the appliance went offline in mid-cycle: the end-time sensor became
\* unavailable and kept its timestamp and its running flag
AvailabilityWitness ==
    /\ before.online
    /\ ~online
    /\ ~available(TimeSensor, Found, online)
    /\ native # None
    /\ running = Some(TRUE)


\* the tank sensor's native_value has been read on the current snapshot
TankShown == shown[TankSensor] # None

\* the level it gave
TankLevel == Val(shown[TankSensor])

\* C12: tank level.  The codes "0" to "5" give unknown, empty, 25, 50, 100
\* and active; any other code and an absent attribute give None; machine
\* state, door and cycle flags play no part.
TankLevelLookup ==
    TankShown =>
        /\ attrs.tank = "0" => TankLevel = "unknown"
        /\ attrs.tank = "1" => TankLevel = "empty"
        /\ attrs.tank = "2" => TankLevel = "25"
        /\ attrs.tank = "3" => TankLevel = "50"
        /\ attrs.tank = "4" => TankLevel = "100"
        /\ attrs.tank = "5" => TankLevel = "active"
        /\ attrs.tank \notin {"0", "1", "2", "3", "4", "5"} => TankLevel = NONE

\* code "9" read with the door open during a main cycle gave None
TankLevelWitness ==
    /\ TankShown
    /\ attrs.tank = "9"
    /\ attrs.door = "1"
    /\ attrs.ms = "RunningMainCycle"
    /\ TankLevel = NONE

\* C15: door not open, running main cycle, all six cycle flags false: the
\* classifier falls through to the table and gives running_maincycle.
RunningFallsThrough ==
    (/\ StateShown
     /\ attrs.door # "1"
     /\ attrs.ms = "RunningMainCycle"
     /\ \A ph \in CyclePhases : ~attrs.cycle[ph]) =>
        StateLabel = "running_maincycle"

\* a running main cycle with no phase flag, door attribute absent
RunningFallsThroughWitness ==
    /\ StateShown
    /\ attrs.door = NONE
    /\ attrs.ms = "RunningMainCycle"
    /\ attrs.cycle = NoCycle
    /\ StateLabel = "running_maincycle"


\* C13: no-op rule.  A notification whose machine state is not
\* running-main-cycle, and is not complete or standby met with running
\* true, writes nothing and leaves the stored timestamp and running alone;
\* the host's state changes only by the host's own write after a poll.
NoOpRule ==
    (/\ TimeCalled
     /\ attrs.ms # "RunningMainCycle"
     /\ ~(attrs.ms \in {"Complete", "Standby"} /\ before.running = Some(TRUE)))
        => /\ TimeWrites = <<>>
           /\ native = before.native
           /\ running = before.running
           /\ hostState =
                  IF polled
                  THEN [before.hostState EXCEPT ![TimeSensor] = Some(native)]
                  ELSE before.hostState

\* standby seen right after restoration, running still None
NoOpWitness ==
    /\ TimeCalled
    /\ attrs.ms = "Standby"
    /\ before.running = None
    /\ native = Some(0)
    /\ hostState[TimeSensor] = None

\* C14: restoration ordering.  Until the end-time sensor has restored its
\* value and registered, its callback is not in the appliance's list, it has
\* handled no notification and written nothing; the restored value replaces
\* only the None of construction, never a timestamp a notification produced.
RestorationOrdering ==
    /\ phase[TimeSensor] \in {"new", "restoring"} =>
           /\ TimeSensor \notin Registered
           /\ TimeSensor \notin notified
           /\ TimeSensor \notin emitted
           /\ TimeWrites = <<>>
    /\ (native # before.native /\ ~TimeCalled) =>
           /\ before.native = None
           /\ TimeSensor \notin notified

\* a running-main-cycle notification arrived between restoring and
\* registering and did not reach the sensor
RestorationOrderingWitness ==
    /\ phase[TimeSensor] = "restoring"
    /\ attrs.ms = "RunningMainCycle"
    /\ attrs.rem = Some(Sixty)
    /\ native = Some(0)
    /\ running = None

\* C16: a running-main-cycle notification whose remaining time is absent or
\* no integer leaves the stored timestamp alone and sets running, so that a
\* complete or standby notification met with running set this way (nothing
\* stored yet) performs the finish transition and writes now.
BadRemainingStillRunning ==
    /\ (TimeCalled /\ attrs.ms = "RunningMainCycle" /\ ~IntAccepts(attrs.rem)) =>
           /\ native = before.native
           /\ TimeWrites = <<>>
           /\ running = Some(TRUE)
    /\ (/\ TimeCalled
        /\ attrs.ms \in {"Complete", "Standby"}
        /\ before.running = Some(TRUE)
        /\ before.native = None) =>
           /\ TimeWrites = <<Some(now)>>
           /\ native = Some(now)
           /\ running = Some(FALSE)

\* the cycle finished after only unparseable remaining times: running was
\* set while nothing was stored
BadRemainingWitness ==
    /\ TimeCalled
    /\ attrs.ms = "Complete"
    /\ before.running = Some(TRUE)
    /\ before.native = None
    /\ TimeWrites = <<Some(now)>>

\* C17: one call of update_from_latest_data writes at most one state: now
\* for complete or standby, the candidate for running-main-cycle, nothing
\* for any other machine state.
OneWritePerCall ==
    /\ Len(TimeWrites) <= 1
    /\ TimeWrites # <<>> =>
           /\ TimeCalled
           /\ attrs.ms \in {"Complete", "Standby"} => TimeWrites = <<Some(now)>>
           /\ attrs.ms = "RunningMainCycle" => TimeWrites = <<Some(Candidate)>>
           /\ attrs.ms \in {"Complete", "Standby", "RunningMainCycle"}

\* a running-main-cycle notification met with running true wrote once
OneWriteWitness ==
    /\ TimeCalled
    /\ attrs.ms = "RunningMainCycle"
    /\ before.running = Some(TRUE)
    /\ before.native # None
    /\ Len(TimeWrites) = 1

\* C18: running persists.  It becomes true only by a running-main-cycle
\* notification, which always sets it, and False only by a finish
\* transition, which writes now once; every other machine state leaves it
\* as it was.
RunningPersists ==
    /\ running # before.running =>
           /\ TimeCalled
           /\ \/ running = Some(TRUE) /\ attrs.ms = "RunningMainCycle"
              \/ /\ running = Some(FALSE)
                 /\ attrs.ms \in {"Complete", "Standby"}
                 /\ before.running = Some(TRUE)
                 /\ TimeWrites = <<Some(now)>>
    /\ (TimeCalled /\ attrs.ms = "RunningMainCycle") => running = Some(TRUE)
    /\ (/\ TimeCalled
        /\ attrs.ms \notin {"RunningMainCycle", "Complete", "Standby"}) =>
           running = before.running
    /\ (/\ TimeCalled
        /\ attrs.ms \in {"Complete", "Standby"}
        /\ before.running = Some(TRUE)) =>
           (running = Some(FALSE) /\ TimeWrites = <<Some(now)>>)

\* a running-post-cycle notification in mid-cycle left running true
RunningPersistsWitness ==
    /\ TimeCalled
    /\ attrs.ms = "RunningPostCycle"
    /\ before.running = Some(TRUE)
    /\ running = Some(TRUE)

\* C19: bounded staleness.  After a running-main-cycle notification with a
\* parsed remaining time R a timestamp is stored and it is within 60
\* seconds of now + R.
BoundedStaleness ==
    RunningParsed =>
        (native # None /\ Abs(Val(native) - Candidate) <= 60)

\* the candidate has drifted two seconds from the written timestamp and
\* was not written
BoundedStalenessWitness ==
    /\ RunningParsed
    /\ native # None
    /\ Abs(Val(native) - Candidate) = 2
    /\ TimeWrites = <<>>

\* C20: the remaining time counts only when it is not negative: a negative
\* value writes nothing, and a timestamp written by the running update is
\* never earlier than now.
NonNegativeRemaining ==
    RunningParsed =>
        /\ IntOf(attrs.rem).val < 0 => TimeWrites = <<>>
        /\ TimeWrites # <<>> => Val(TimeWrites[1]) >= now

====
